---- MODULE Spec2Model ----
(***************************************************************************)
(* Model of src/src/image_description.py: the Streamlit script of the      *)
(* image description generator.  Every rerun of the script executes        *)
(* main(): it builds an ImageDescriptionApp (whose constructor loads       *)
(* approved_images from approved_images_cache.json) and calls run(), which *)
(* checks the prompt, walks the image folder (describe, translate,         *)
(* approve) and optionally generates the output.                           *)
(***************************************************************************)
EXTENDS Integers, Sequences, FiniteSets, TLC

(* ----------------------------- bounds ---------------------------------- *)

\* Number of script reruns (executions of main) explored.
MaxRuns == 2

(* --------------------------- value domains ----------------------------- *)

\* Python's None, as it appears in record fields and return values.
NoneVal == "<None>"

\* AppConfig.target_languages, restricted to the source language and one
\* translation language.
target_languages == [English |-> "EN", German |-> "DE"]

LanguageNames == DOMAIN target_languages

\* The image files of the folder listing, in listing order.
image_files == <<"a.jpg", "b.jpg">>

\* Prompt texts the user may leave in the text area, as character sequences:
\* one plain text and one that ends in whitespace.
Prompts == { <<"a">>, <<"b", " ">> }

\* Characters str.strip() removes.
Whitespace == {" "}

\* str.strip(): drop leading and trailing whitespace.
RECURSIVE LStrip(_)
LStrip(s) == IF s # <<>> /\ Head(s) \in Whitespace THEN LStrip(Tail(s)) ELSE s

RECURSIVE RStrip(_)
RStrip(s) ==
    IF s # <<>> /\ s[Len(s)] \in Whitespace
    THEN RStrip(SubSeq(s, 1, Len(s) - 1))
    ELSE s

Strip(s) == RStrip(LStrip(s))

\* Raw caption decoded from the BLIP output.
BlipDecoded == "a cat"

\* str.capitalize() on the captions that occur.
Capitalize(s) ==
    CASE s = "a cat" -> "A cat"
      [] s = "A cat" -> "A cat"
      [] OTHER -> s

\* The text the vision model returns; it answers the prompt it was sent.
MistralContent(prompt) ==
    CASE prompt = <<"a">> -> "description for prompt a"
      [] OTHER -> "description for prompt b"

\* The text DeepL returns for a successful translation.
DeepLText == "translated"

\* The six-field dictionary built as processed_image_info.
ImageInfo(f, l, b, m, tc, td) ==
    [filename |-> f, language |-> l, blip_caption |-> b,
     mistral_description |-> m, translated_caption |-> tc,
     translated_description |-> td]

\* A local variable of run() that holds a dictionary and is not yet assigned.
Unset == [unset |-> TRUE]

\* A local variable of run() that holds a string and is not yet assigned.
UnsetText == "<unassigned>"

(* ------------------------------- JSON ---------------------------------- *)

\* json.dump of one field value: None becomes null, a str a JSON string.
JsonValue(v) == IF v = NoneVal THEN [t |-> "null"] ELSE [t |-> "string", s |-> v]

\* json.load of one field value.
PyValue(j) == IF j.t = "null" THEN NoneVal ELSE j.s

\* json.dump(self.approved_images, f): a list of objects.
JsonDump(images) ==
    [i \in 1..Len(images) |->
        [k \in DOMAIN images[i] |-> JsonValue(images[i][k])]]

\* json.load(f) of a well-formed cache file.
JsonLoad(text) ==
    [i \in 1..Len(text) |-> [k \in DOMAIN text[i] |-> PyValue(text[i][k])]]

(* ------------------------------- state --------------------------------- *)

VARIABLES
    cache_file,             \* approved_images_cache.json
    prompt_file,            \* image_prompt.txt
    approved_images,        \* self.approved_images
    session_state,          \* st.session_state: started, image_prompt, target_lang
    pc,                     \* position of the script
    image_index,            \* position of the for loop in image_files
    description,            \* run(): description
    translated_caption,     \* run(): translated_caption
    translated_description, \* run(): translated_description
    processed_image_info,   \* run(): processed_image_info
    approved,               \* run(): approved, the value of the checkbox
    save_log,               \* what the last save of this run logged
    calls,                  \* collaborator calls issued in the current iteration
    error_log,              \* errors logged by the last describe_image call
    prompt_check,           \* the branch check_and_delete_cache took in this run
    output,                 \* result of the Generate Output handler
    history,                \* the keys processed since the last detected
                            \* prompt change
    previous,               \* whether the current key was in history when this
                            \* iteration began
    runs,                   \* number of reruns so far
    load_result             \* what load_approved_images logged in this rerun,
                            \* and whether it raised

files == <<cache_file, prompt_file>>
locals == <<description, translated_caption, translated_description,
            processed_image_info>>
approval == <<approved, save_log>>
vars == <<files, approved_images, session_state, pc, image_index, locals,
          approval, calls, error_log, prompt_check, output, history, previous, runs,
          load_result>>

AbsentFile == [kind |-> "absent"]
CorruptFile == [kind |-> "corrupt"]
JsonFile(images) == [kind |-> "json", text |-> JsonDump(images)]

NoPromptFile == [exists |-> FALSE]
PromptFile(text) == [exists |-> TRUE, text |-> text]

NoOutput == [status |-> "none"]

\* The state before the first rerun, given the cache file found on disk.
InitWith(file) ==
    /\ cache_file = file
    /\ prompt_file = NoPromptFile
    /\ approved_images = <<>>
    /\ session_state = [started |-> FALSE, image_prompt |-> <<"a">>,
                        target_lang |-> "English"]
    /\ pc = "idle"
    /\ image_index = 0
    /\ description = Unset
    /\ translated_caption = UnsetText
    /\ translated_description = UnsetText
    /\ processed_image_info = Unset
    /\ approved = UnsetText
    /\ save_log = UnsetText
    /\ calls = {}
    /\ error_log = {}
    /\ prompt_check = UnsetText
    /\ output = NoOutput
    /\ history = {}
    /\ previous = FALSE
    /\ runs = 0
    /\ load_result = Unset

\* A fresh installation: neither file exists.
Init == InitWith(AbsentFile)

\* A cache file that is present although no prompt file is: one entry, kept
\* from a time when the prompt was not yet recorded on disk (or whose prompt
\* file was removed).
EarlierCache ==
    JsonFile(<<ImageInfo("a.jpg", "EN", "A cat", "description for prompt a",
                         NoneVal, NoneVal)>>)

InitEarlierCache == InitWith(EarlierCache)

(* ------------------- ImageDescriptionApp.__init__ ---------------------- *)

\* load_approved_images: the list read from the cache file; a missing file and
\* a file json.load rejects both give the empty list.
load_approved_images(file) ==
    IF file.kind = "json" THEN JsonLoad(file.text) ELSE <<>>

\* Lines 236-238: open() of an existing cache file succeeds, or raises an
\* OSError other than FileNotFoundError (no permission to read, a directory
\* of that name).
LoadOutcomes == {"ok", "os_error"}

\* Lines 240-245 catch json.JSONDecodeError and FileNotFoundError only: any
\* other exception of open() leaves load_approved_images, __init__ and main().
LoadRaises(file, outcome) == file.kind # "absent" /\ outcome = "os_error"

\* Lines 241-244: the warning logged for a file json.load rejects.
LoadLogged(file, outcome) ==
    IF ~LoadRaises(file, outcome) /\ file.kind = "corrupt"
    THEN "warning" ELSE "none"

\* main(): a rerun of the script.  The constructor loads the approved images,
\* then run() renders the sidebar (language, Start button) and, once started,
\* takes the prompt from the text area.  An exception of the constructor ends
\* the script before run() is called.
Main(start_clicked, prompt, lang, outcome) ==
    /\ pc = "idle"
    /\ runs < MaxRuns
    /\ runs' = runs + 1
    /\ load_result' = [logged |-> LoadLogged(cache_file, outcome),
                       raised |-> LoadRaises(cache_file, outcome)]
    /\ IF LoadRaises(cache_file, outcome)
       THEN /\ pc' = "done"
            /\ UNCHANGED <<approved_images, session_state>>
       ELSE /\ approved_images' = load_approved_images(cache_file)
            /\ LET started == session_state.started \/ start_clicked IN
                /\ session_state' =
                      [started |-> started,
                       image_prompt |-> IF started THEN prompt
                                        ELSE session_state.image_prompt,
                       target_lang |-> lang]
                /\ pc' = IF started THEN "check" ELSE "done"
    /\ UNCHANGED <<files, image_index, locals, approval, calls, error_log,
                   prompt_check, output, history, previous>>

(* ---------------------- check_and_delete_cache ------------------------- *)

\* PromptCheck with a plausible slip: a missing prompt file is read as the
\* empty prompt and compared like any other saved prompt.
PromptCheck_MissingReadAsEmpty(pfile, cfile, current) ==
    IF Strip(IF pfile.exists THEN pfile.text ELSE <<>>) # current
    THEN [cache |-> AbsentFile, prompt |-> PromptFile(current),
          branch |-> "changed"]
    ELSE [cache |-> cfile, prompt |-> pfile, branch |-> "unchanged"]

\* The files after check_and_delete_cache for the current prompt, and the
\* branch taken: with a prompt file whose stripped content differs from the
\* prompt, the cache file is removed and the prompt file rewritten ("changed");
\* with one that agrees, nothing is written ("unchanged"); without a prompt
\* file, the prompt file is created ("created").
PromptCheck(pfile, cfile, current) ==
    IF pfile.exists
    THEN IF Strip(pfile.text) # current
         THEN [cache |-> AbsentFile, prompt |-> PromptFile(current),
               branch |-> "changed"]
         ELSE [cache |-> cfile, prompt |-> pfile, branch |-> "unchanged"]
    ELSE [cache |-> cfile, prompt |-> PromptFile(current), branch |-> "created"]

\* run(), line 311: the call of check_and_delete_cache; self.approved_images is
\* not touched by it.
CheckAndDeleteCache ==
    /\ pc = "check"
    /\ LET r == PromptCheck(prompt_file, cache_file, session_state.image_prompt) IN
        /\ cache_file' = r.cache
        /\ prompt_file' = r.prompt
        /\ prompt_check' = r.branch
        /\ history' = IF r.branch = "changed" THEN {} ELSE history
    /\ pc' = "folder"
    /\ UNCHANGED <<approved_images, session_state, image_index, locals,
                   approval, calls, error_log, output, previous, runs,
                   load_result>>

\* run(), lines 314-322 and 470-471: the folder test and the listing; an
\* invalid folder ends the run with a warning.
EnterFolder(is_dir) ==
    /\ pc = "folder"
    /\ IF is_dir
       THEN /\ image_index' = 1
            /\ pc' = IF Len(image_files) >= 1 THEN "describe" ELSE "output"
       ELSE /\ pc' = "done"
            /\ UNCHANGED image_index
    /\ UNCHANGED <<files, approved_images, session_state, locals, approval,
                   calls, error_log, prompt_check, output, history, previous, runs,
                   load_result>>

(* --------------------------- describe_image ---------------------------- *)

\* The loop variable image_file and the language code passed to describe_image.
image_file == image_files[image_index]
language_code == target_languages[session_state.target_lang]

\* Lines 97-100: the indices of the approved images with this filename and
\* language; the loop returns the first.
CacheMatches(images, f, l) ==
    {i \in 1..Len(images) : images[i].filename = f /\ images[i].language = l}

Min(S) == CHOOSE x \in S : \A y \in S : x <= y

\* What describe_image returns when generation fails.
FailedDescription(f) == [filename |-> f]

\* The steps of a generation, in the order describe_image takes them; a
\* generation that fails at a step has issued the collaborator calls before it.
GenerationOutcomes ==
    {"load_fail", "blip_fail", "encode_fail", "mistral_fail", "ok"}

CallsOf(outcome) ==
    CASE outcome = "load_fail" -> {}
      [] outcome = "blip_fail" -> {"blip"}
      [] outcome = "encode_fail" -> {"blip"}
      [] OTHER -> {"blip", "mistral"}

\* The errors a generation logs.  processor.decode is reached once the BLIP
\* model has generated; its failure is logged and leaves the caption empty.
\* encode_image logs its own failure; every other failure is logged by the
\* except clauses of describe_image.
DecodeError == "Error decoding BLIP caption"
EncodingError == "Image encoding error"
DescriptionError == "Image description error"

ErrorsOf(outcome, decode_ok) ==
    (IF outcome \in {"encode_fail", "mistral_fail", "ok"} /\ ~decode_ok
     THEN {DecodeError} ELSE {})
    \cup (CASE outcome = "ok" -> {}
            [] outcome = "encode_fail" -> {EncodingError}
            [] OTHER -> {DescriptionError})

\* describe_image with a plausible slip: a failed generation returns a complete
\* dictionary with empty texts instead of the filename alone.
describe_image_FailureComplete(images, f, l, prompt, outcome, decode_ok) ==
    IF CacheMatches(images, f, l) # {}
    THEN [result |-> images[Min(CacheMatches(images, f, l))], issued |-> {},
          logged |-> {}]
    ELSE [result |->
            [filename |-> f, language |-> l,
             blip_caption |->
                 IF outcome = "ok"
                 THEN Capitalize(IF decode_ok THEN BlipDecoded ELSE "")
                 ELSE "",
             mistral_description |->
                 IF outcome = "ok" THEN MistralContent(prompt) ELSE "",
             processing_times |-> "timings",
             total_processing_time |-> "total"],
          issued |-> CallsOf(outcome),
          logged |-> ErrorsOf(outcome, decode_ok)]

\* describe_image(image_path, language): the returned dictionary, the calls
\* issued and the errors logged.
describe_image(images, f, l, prompt, outcome, decode_ok) ==
    IF CacheMatches(images, f, l) # {}
    THEN [result |-> images[Min(CacheMatches(images, f, l))], issued |-> {},
          logged |-> {}]
    ELSE IF outcome # "ok"
    THEN [result |-> FailedDescription(f), issued |-> CallsOf(outcome),
          logged |-> ErrorsOf(outcome, decode_ok)]
    ELSE [result |->
            [filename |-> f, language |-> l,
             blip_caption |->
                 Capitalize(IF decode_ok THEN BlipDecoded ELSE ""),
             mistral_description |-> MistralContent(prompt),
             processing_times |-> "timings",
             total_processing_time |-> "total"],
          issued |-> CallsOf(outcome),
          logged |-> ErrorsOf(outcome, decode_ok)]

\* NextImage with a plausible slip: the loop is left (break) where the next
\* image should be taken (continue).
NextImage_Break ==
    /\ image_index' = Len(image_files) + 1
    /\ pc' = "output"

\* The for statement moving to the next image file, or leaving the loop.
NextImage ==
    /\ image_index' = image_index + 1
    /\ pc' = IF image_index + 1 > Len(image_files) THEN "output" ELSE "describe"

\* run(), lines 324-358: one image is opened and described.  An image that
\* cannot be opened, and a description without a caption (the KeyError of line
\* 344), end the iteration in the except clause.
DescribeImage(open_ok, outcome, decode_ok) ==
    /\ pc = "describe"
    /\ IF ~open_ok
       THEN /\ NextImage
            /\ calls' = {}
            /\ UNCHANGED <<description, error_log>>
       ELSE LET d == describe_image(approved_images, image_file, language_code,
                                    session_state.image_prompt, outcome,
                                    decode_ok)
            IN  /\ description' = d.result
                /\ calls' = d.issued
                /\ error_log' = d.logged
                /\ IF "blip_caption" \in DOMAIN d.result
                   THEN pc' = "translate" /\ UNCHANGED image_index
                   ELSE NextImage
    /\ UNCHANGED <<files, approved_images, session_state, translated_caption,
                   translated_description, processed_image_info, approval,
                   prompt_check, output, history, previous, runs,
                   load_result>>

(* --------------------------- translate_text ---------------------------- *)

\* translate_text(text, target_language): the translated text, or None when the
\* DeepL call raises.
translate_text(text, target_language, ok) ==
    IF ok THEN DeepLText ELSE NoneVal

\* run(), lines 360-395: both texts are translated unless the language is
\* English, and the image info is built.  deepl_ok says whether the DeepL
\* service answers during this iteration; the two calls follow each other
\* directly and see the same service.
Translate(deepl_ok) ==
    /\ pc = "translate"
    /\ LET english == session_state.target_lang = "English"
           key == <<description.filename, description.language>>
           tc == translate_text(description.blip_caption, language_code,
                                deepl_ok)
           td == translate_text(description.mistral_description, language_code,
                                deepl_ok)
           info == ImageInfo(description.filename, description.language,
                             description.blip_caption,
                             description.mistral_description,
                             IF english THEN NoneVal ELSE tc,
                             IF english THEN NoneVal ELSE td)
       IN  /\ translated_caption' = IF english THEN translated_caption ELSE tc
           /\ translated_description' =
                  IF english THEN translated_description ELSE td
           /\ calls' = IF english THEN calls ELSE calls \cup {"translate"}
           /\ processed_image_info' = info
           /\ previous' = (key \in history)
           /\ history' = history \cup {key}
    /\ pc' = "approve"
    /\ UNCHANGED <<files, approved_images, session_state, image_index,
                   description, approval, error_log, prompt_check, output,
                   runs,
                   load_result>>

(* ----------------------------- approval -------------------------------- *)

\* Python's "x in list": some element equals x.
In(x, list) == \E i \in 1..Len(list) : list[i] = x

\* Remove with a plausible slip: every record of the language of x is dropped.
Remove_ByLanguage(list, x) ==
    SelectSeq(list, LAMBDA e : e.language # x.language)

\* list.remove(x): the list without its first element equal to x.
Remove(list, x) ==
    LET i == Min({j \in 1..Len(list) : list[j] = x})
    IN  SubSeq(list, 1, i - 1) \o SubSeq(list, i + 1, Len(list))

\* What a save can do to the cache file: write the list; fail to open the file,
\* leaving it as it was; fail while writing, leaving a truncated file.  Both
\* failures are caught and logged.
SaveOutcomes == {"ok", "open_fail", "dump_fail"}

save_approved_images(images, file, outcome) ==
    CASE outcome = "ok" -> JsonFile(images)
      [] outcome = "open_fail" -> file
      [] OTHER -> CorruptFile

\* ApprovedAfter with a plausible slip: an image info whose translation is
\* missing is not appended.
ApprovedAfter_NeedsTranslation(images, info, checked) ==
    IF checked
    THEN IF ~In(info, images) /\ ~(info.language # "EN" /\
                                   info.translated_caption = NoneVal)
         THEN Append(images, info) ELSE images
    ELSE IF In(info, images) THEN Remove(images, info) ELSE images

\* Lines 403-416: the approved images after the checkbox is read.  A checked box
\* appends the image info unless the list holds an equal dictionary; an
\* unchecked box removes the dictionary equal to the image info, if any.
ApprovedAfter(images, info, checked) ==
    IF checked
    THEN IF ~In(info, images) THEN Append(images, info) ELSE images
    ELSE IF In(info, images) THEN Remove(images, info) ELSE images

\* The line save_approved_images logs: info after a write, error otherwise.
SaveLogged(outcome) == IF outcome = "ok" THEN "info" ELSE "error"

\* run(), lines 397-417: the approval checkbox of the current image; the list
\* is saved whenever it changed.
Approval(checked, outcome) ==
    /\ pc = "approve"
    /\ approved' = IF checked THEN "True" ELSE "False"
    /\ approved_images' =
           ApprovedAfter(approved_images, processed_image_info, checked)
    /\ IF approved_images' # approved_images
       THEN /\ cache_file' =
                   save_approved_images(approved_images', cache_file, outcome)
            /\ save_log' = SaveLogged(outcome)
       ELSE UNCHANGED <<cache_file, save_log>>
    /\ NextImage
    /\ UNCHANGED <<prompt_file, session_state, locals, calls, error_log, prompt_check,
                   output, history, previous, runs,
                   load_result>>

(* -------------------------- output generation -------------------------- *)

\* Lines 453-466: the approved images of the selected language, the first of
\* each filename and language, in list order.
\* ExportEntries with a plausible slip: the language test of line 453 is left
\* out.
RECURSIVE ExportEntries_AnyLanguage(_, _, _)
ExportEntries_AnyLanguage(images, code, seen) ==
    IF images = <<>> THEN <<>>
    ELSE LET img == Head(images)
             key == <<img.filename, img.language>>
         IN  IF key \notin seen
             THEN <<img>> \o ExportEntries_AnyLanguage(Tail(images), code,
                                                       seen \cup {key})
             ELSE ExportEntries_AnyLanguage(Tail(images), code, seen)

RECURSIVE ExportEntries(_, _, _)
ExportEntries(images, code, seen) ==
    IF images = <<>> THEN <<>>
    ELSE LET img == Head(images)
             key == <<img.filename, img.language>>
         IN  IF img.language = code /\ key \notin seen
             THEN <<img>> \o ExportEntries(Tail(images), code, seen \cup {key})
             ELSE ExportEntries(Tail(images), code, seen)

\* Lines 462-463: the values substituted for the title and the description.
OutputTitle(img, lang) ==
    IF lang # "English" THEN img.translated_caption ELSE img.blip_caption

OutputDescription(img, lang) ==
    IF lang # "English" THEN img.translated_description
    ELSE img.mistral_description

\* The configuration text with its three placeholders replaced.
Rendering(img, lang) ==
    [image_file |-> img.filename, output_title |-> OutputTitle(img, lang),
     output_description |-> OutputDescription(img, lang)]

\* str.replace raises TypeError when the replacement is None.
ReplaceRaises(img, lang) ==
    OutputTitle(img, lang) = NoneVal \/ OutputDescription(img, lang) = NoneVal

\* The Generate Output handler: the renderings shown by st.code, or the
\* TypeError that ends the script.
generate_output(images, lang) ==
    LET entries == ExportEntries(images, target_languages[lang], {})
    IN  IF \E i \in 1..Len(entries) : ReplaceRaises(entries[i], lang)
        THEN [status |-> "TypeError"]
        ELSE [status |-> "ok",
              resources |->
                  [i \in 1..Len(entries) |-> Rendering(entries[i], lang)]]

\* run(), lines 430-468: the end of the script, with or without a click on
\* Generate Output.
GenerateOutput(clicked) ==
    /\ pc = "output"
    /\ output' = IF clicked
                 THEN generate_output(approved_images, session_state.target_lang)
                 ELSE NoOutput
    /\ pc' = "done"
    /\ UNCHANGED <<files, approved_images, session_state, image_index, locals,
                   approval, calls, error_log, prompt_check, history, previous, runs,
                   load_result>>

\* main() returns: the app object, the locals of run() and the rendered page
\* are gone; the two files and the session state remain for the next rerun.
ScriptEnd ==
    /\ pc = "done"
    /\ pc' = "idle"
    /\ approved_images' = <<>>
    /\ image_index' = 0
    /\ description' = Unset
    /\ translated_caption' = UnsetText
    /\ translated_description' = UnsetText
    /\ processed_image_info' = Unset
    /\ approved' = UnsetText
    /\ save_log' = UnsetText
    /\ calls' = {}
    /\ error_log' = {}
    /\ prompt_check' = UnsetText
    /\ output' = NoOutput
    /\ previous' = FALSE
    /\ load_result' = Unset
    /\ UNCHANGED <<files, session_state, history, runs>>

(* --------------------------- specification ----------------------------- *)

Next ==
    \/ \E start_clicked \in BOOLEAN, prompt \in Prompts, lang \in LanguageNames,
          outcome \in LoadOutcomes :
           Main(start_clicked, prompt, lang, outcome)
    \/ CheckAndDeleteCache
    \/ \E is_dir \in BOOLEAN : EnterFolder(is_dir)
    \/ \E open_ok \in BOOLEAN, outcome \in GenerationOutcomes,
          decode_ok \in BOOLEAN :
           DescribeImage(open_ok, outcome, decode_ok)
    \/ \E deepl_ok \in BOOLEAN : Translate(deepl_ok)
    \/ \E checked \in BOOLEAN, outcome \in SaveOutcomes :
           Approval(checked, outcome)
    \/ \E clicked \in BOOLEAN : GenerateOutput(clicked)
    \/ ScriptEnd

Spec == Init /\ [][Next]_vars

\* The same program started on a disk that holds an earlier cache file.
SpecEarlierCache == InitEarlierCache /\ [][Next]_vars

(* ------------------------------ properties ----------------------------- *)

\* The entries a cache file holds: none when it is absent or unreadable.
FileEntries(file) == load_approved_images(file)

\* The (filename, language) key of an image info.
KeyOf(info) == <<info.filename, info.language>>

\* The check has just returned: the script stands before the folder test.
CheckReturned == pc = "folder"

\* C1: whenever the prompt check finds a persisted prior prompt that differs
\* from the current prompt, then immediately after the check returns neither the
\* persisted cache file nor the in-memory approved_images list holds any entry.
C1_InvalidationPropagation ==
    (CheckReturned /\ prompt_check = "changed") =>
        (FileEntries(cache_file) = <<>> /\ approved_images = <<>>)

\* C2: after a prompt change between two runs, a describe_image call of the new
\* run that returns a description has computed it by invoking the captioning
\* and the description model; it is not an entry cached under the old prompt.
C2_RecomputeAfterPromptChange ==
    (pc = "translate" /\ prompt_check = "changed") =>
        {"blip", "mistral"} \subseteq calls

\* C3: when a key is processed again with no prompt invalidation since its
\* earlier processing, and the cache holds an entry for the key, the processing
\* issues no call to the captioning, vision description or translation
\* collaborators, and its record equals the one the cache holds for the key.
C3_Idempotence ==
    LET m == CacheMatches(approved_images, processed_image_info.filename,
                          processed_image_info.language)
    IN  (pc = "approve" /\ previous /\ m # {}) =>
            /\ calls = {}
            /\ processed_image_info = approved_images[Min(m)]

\* Neither the approved images nor the cache file holds an entry for the key.
NoEntryFor(f, l) ==
    /\ CacheMatches(approved_images, f, l) = {}
    /\ CacheMatches(FileEntries(cache_file), f, l) = {}

\* The approval of the current image info has been taken: the checkbox value
\* and the image info belong to the same iteration.
ApprovalTaken ==
    /\ processed_image_info # Unset
    /\ approved # UnsetText
    /\ pc # "approve"

C6_LedgerUpsert ==
    \A i, j \in 1..Len(approved_images) :
        KeyOf(approved_images[i]) = KeyOf(approved_images[j]) => i = j

\* C7: after an image info is approved, the approved images hold no other
\* record for its key: every record with that key is the approved image info.
C7_ApproveReplacesByKey ==
    (ApprovalTaken /\ approved = "True") =>
        \A i \in 1..Len(approved_images) :
            KeyOf(approved_images[i]) = KeyOf(processed_image_info) =>
                approved_images[i] = processed_image_info

\* C8: after an image is un-approved, the approved images hold no record for
\* its key, whatever the other fields of the record were.
C8_UnapproveRemovesKey ==
    (ApprovalTaken /\ approved = "False") =>
        CacheMatches(approved_images, processed_image_info.filename,
                     processed_image_info.language) = {}

\* C9: an export for a non-English language never fails, and renders every
\* approved record of the language with its translated fields or, where those
\* are absent, with its source caption and description.
C9_ExportFallback ==
    LET entries == ExportEntries(approved_images, language_code, {})
        Title(img) == IF img.translated_caption # NoneVal
                      THEN img.translated_caption ELSE img.blip_caption
        Text(img) == IF img.translated_description # NoneVal
                     THEN img.translated_description
                     ELSE img.mistral_description
    IN  (pc = "done" /\ output # NoOutput /\
         session_state.target_lang # "English") =>
            /\ output.status = "ok"
            /\ Len(output.resources) = Len(entries)
            /\ \A i \in 1..Len(entries) :
                  /\ output.resources[i].output_title = Title(entries[i])
                  /\ output.resources[i].output_description = Text(entries[i])

\* C10: when no prompt file exists, the prompt check reports no change, leaves
\* the cache file and the in-memory approved images as they are, and only
\* writes the current prompt to the prompt file.
C10_FirstRunSafety ==
    [][(pc = "check" /\ ~prompt_file.exists) =>
          /\ prompt_check' = "created"
          /\ cache_file' = cache_file
          /\ approved_images' = approved_images
          /\ prompt_file' = PromptFile(session_state.image_prompt)]_vars

\* C10 witness: the check has run without a prompt file while the cache file and
\* the approved images held an entry, and they still hold it.
C10_Witness ==
    /\ CheckReturned
    /\ prompt_check = "created"
    /\ cache_file = EarlierCache
    /\ approved_images # <<>>
    /\ prompt_file = PromptFile(session_state.image_prompt)

\* C11: when the prompt file holds exactly the current prompt, whitespace
\* included, the prompt check does not take the prompt-changed branch and
\* leaves the cache file as it is.
C11_SamePromptKeepsCache ==
    [][(/\ pc = "check"
        /\ prompt_file.exists
        /\ prompt_file.text = session_state.image_prompt) =>
            /\ prompt_check' # "changed"
            /\ cache_file' = cache_file]_vars

\* C12: when the cache file is corrupt or cannot be read at the time it is
\* loaded, the approved images start empty, a warning is logged, and the
\* script goes on: the constructor does not raise.
C12_CorruptLoadStartsEmpty ==
    [][(/\ pc = "idle" /\ pc' # "idle"
        /\ \/ cache_file.kind = "corrupt"
           \/ load_result'.raised) =>
            /\ ~load_result'.raised
            /\ load_result'.logged = "warning"
            /\ approved_images' = <<>>]_vars

\* C13: once an approval or un-approval of this run has been applied, saved
\* and reported, loading the cache file gives exactly the approved images in
\* memory, the same records in the same order.
C13_DurableBeforeReported ==
    (ApprovalTaken /\ save_log # UnsetText) =>
        FileEntries(cache_file) = approved_images

\* C14: a generated output holds exactly one rendering for each (filename,
\* language) key among the approved images of the selected language, the
\* rendering of the first record with that key, in the order of the list;
\* records of other languages are not rendered.
C14_ExportFirstPerKey ==
    LET firsts == {i \in 1..Len(approved_images) :
                     /\ approved_images[i].language = language_code
                     /\ \A j \in 1..(i - 1) :
                           KeyOf(approved_images[j]) # KeyOf(approved_images[i])}
        Nth(k) == CHOOSE i \in firsts :
                     Cardinality({j \in firsts : j < i}) = k - 1
    IN  (pc = "done" /\ output # NoOutput /\ output.status = "ok") =>
            /\ Len(output.resources) = Cardinality(firsts)
            /\ \A k \in 1..Cardinality(firsts) :
                  output.resources[k] =
                      Rendering(approved_images[Nth(k)],
                                session_state.target_lang)

\* C14 witness: a German export of three approved records, the third a second
\* record for the key of the first; two renderings, a.jpg before b.jpg.
C14_Witness ==
    /\ pc = "done"
    /\ output # NoOutput
    /\ output.status = "ok"
    /\ session_state.target_lang = "German"
    /\ Len(approved_images) = 3
    /\ KeyOf(approved_images[1]) = KeyOf(approved_images[3])
    /\ approved_images[1] # approved_images[3]
    /\ Len(output.resources) = 2
    /\ output.resources[1].image_file = "a.jpg"
    /\ output.resources[1].output_title = approved_images[1].translated_caption
    /\ output.resources[2].image_file = "b.jpg"

\* The positions of the script inside the for loop over image_files.
InLoop == {"describe", "translate", "approve"}

\* C15: whatever fails for an image, the loop goes on: inside the loop a step
\* can always be taken, and every step stays at the current image, further on
\* in its iteration, or moves to the next image in listing order; the loop is
\* left only after the last image.  Each step brings the end of the loop
\* nearer, so the loop runs to its end.
C15_FailuresNeverAbort ==
    [][(pc \in InLoop) =>
        (LET Phase(p) == CASE p = "describe" -> 0
                           [] p = "translate" -> 1
                           [] p = "approve" -> 2
                           [] OTHER -> 0
             Rank(p, i) == 3 * i + Phase(p)
         IN  /\ ENABLED Next
             /\ pc' \in InLoop \cup {"output"}
             /\ image_index' \in {image_index, image_index + 1}
             /\ Rank(pc', image_index') > Rank(pc, image_index)
             /\ (image_index' = image_index + 1) =>
                    (pc' = IF image_index = Len(image_files) THEN "output"
                           ELSE "describe")
             /\ (pc' = "output") => (image_index = Len(image_files)))]_vars

\* C15 witness: the description of the first image failed, the second image
\* could not be opened, and the loop has run to its end.
C15_Witness ==
    /\ pc = "output"
    /\ image_index = Len(image_files) + 1
    /\ description = FailedDescription(image_files[1])
    /\ DescriptionError \in error_log
    /\ processed_image_info = Unset

\* C16: once this run has detected a prompt change, the cache file holds no
\* entry generated under the previous prompt: every entry in it carries the
\* description generated for the current prompt.
C16_NoStaleEntriesOnDisk ==
    (prompt_check = "changed") =>
        \A i \in 1..Len(FileEntries(cache_file)) :
            FileEntries(cache_file)[i].mistral_description =
                MistralContent(session_state.image_prompt)

\* C17: the approval or un-approval of an image info leaves every approved
\* record with another (filename, language) key as it is and where it is
\* among the records of other keys.
C17_OtherKeysUntouched ==
    [][(pc = "approve") =>
        (LET Others(list) ==
                 SelectSeq(list, LAMBDA e :
                               KeyOf(e) # KeyOf(processed_image_info))
         IN  Others(approved_images') = Others(approved_images))]_vars

\* C17 witness: in an English rerun b.jpg came from the cache and was
\* un-approved; its record is gone, the record of a.jpg is still there, and
\* the saved cache file holds the same list.
C17_Witness ==
    /\ ApprovalTaken
    /\ pc = "output"
    /\ approved = "False"
    /\ calls = {}
    /\ KeyOf(processed_image_info) = <<"b.jpg", "EN">>
    /\ CacheMatches(approved_images, "b.jpg", "EN") = {}
    /\ CacheMatches(approved_images, "a.jpg", "EN") # {}
    /\ save_log = "info"
    /\ cache_file = JsonFile(approved_images)

====
